---- MODULE Spec2Model ----
(***************************************************************************)
(* Surface-metrology core of the work-progress system.                     *)
(*                                                                         *)
(*   gd : one call of create_offset_surface, which interpolates twice with *)
(*        griddata_with_fallback            (pages/6_三平面視覺化.py)      *)
(*   vc : one call of _prepare_data / validate_every_cell       (show.py)  *)
(*   pg : the step-profile builder of the dimple page                      *)
(*                                          (pages/3_Dimple_3D視覺化.py)   *)
(*   sf : the stepped bowl surface and the two ring classifiers (show.py)  *)
(*   sa : the dispersion statistics and the Cpk analysis of one column, as *)
(*        the dimple page and the transmittance page compute them          *)
(*               (pages/3_Dimple_3D視覺化.py, pages/5_穿透率視覺化.py)      *)
(*   nl : one call of non_linear_scale_z      (pages/6_三平面視覺化.py)    *)
(*   cc : one call of calc_cmin_cmax          (pages/6_三平面視覺化.py)    *)
(*   dr : one analysis run of the dimple page                              *)
(*                                          (pages/3_Dimple_3D視覺化.py)   *)
(*   dl : one confirmed deletion in delete_work_item                       *)
(*   cp : one call of copy_previous_week_data (pages/1_工作進度管理.py)    *)
(*                                                                         *)
(* Lengths are integers: diameters in model units, point coordinates in    *)
(* half units (so that radius <= diameter/2 is px^2 + py^2 <= dia^2),      *)
(* heights in model units, z offsets of the offset surface in tenths.      *)
(* Sample values of sa are whole multiples of a unit u and its             *)
(* specification limits whole multiples of u/100; band counts and Cpk do   *)
(* not depend on u (u = 1 reads the sample 1,2,3,4,5 as written, u = 0.1   *)
(* reads 4,5,6 as 0.4, 0.5, 0.6 and the limit 1000 as 1.0).  Mean,         *)
(* standard deviation and Cpk are kept as exact quotients and compared by  *)
(* cross-multiplication, so the arithmetic of sa is that of the reals, not *)
(* of binary floating point.                                               *)
(***************************************************************************)
EXTENDS Integers, Sequences, FiniteSets, TLC

VARIABLES gd, vc, pg, sf, sa, nl, cc, dr, dl, cp

vars == <<gd, vc, pg, sf, sa, nl, cc, dr, dl, cp>>

\* The value of a component that is not running in a specification.
Idle == [pc |-> "idle"]

\* ---------------------------------------------------------------- helpers

Range(s) == {s[i] : i \in 1..Len(s)}

SeqsUpTo(S, n) == UNION {[1..k -> S] : k \in 0..n}

SetMax(S) == CHOOSE x \in S : \A y \in S : y <= x

\* ------------------------------------------------------------------------
\* pages/6_三平面視覺化.py : non_linear_scale_z, griddata_with_fallback,
\* create_offset_surface
\* ------------------------------------------------------------------------

\* Bound: longest z array handed to create_offset_surface.
MaxZLen == 2

\* z offsets (tenths of a mm) the arrays are drawn from.
ZVals == {-1, 0, 6, 7, 8, 10}

\* Default arguments of non_linear_scale_z, in tenths.
threshold1 == 6
threshold2 == 8
scale_factor == 2

\* One element of non_linear_scale_z: the copy keeps every element that no
\* mask selects (z < 0), mask1 rewrites the element with itself.
scale_one(z) ==
    IF z >= 0 /\ z <= threshold1 THEN z
    ELSE IF z > threshold1 /\ z <= threshold2
         THEN threshold1 + scale_factor * (z - threshold1)
    ELSE IF z > threshold2
         THEN threshold1 + scale_factor * (threshold2 - threshold1) + (z - threshold2)
    ELSE z

non_linear_scale_z(z) == [i \in 1..Len(z) |-> scale_one(z[i])]

\* The order in which griddata_with_fallback walks the methods.
FallbackMethods == <<"cubic", "linear", "nearest">>

\* The methods the ValueError's message names ("cubic/linear/nearest").
ErrorNames == <<"cubic", "linear", "nearest">>

NoGrid == [method |-> "none", data |-> <<>>]

\* A fresh call of griddata_with_fallback on z: nothing tried yet.
NewCall(z) ==
    [z |-> z, pos |-> 1, tried |-> <<>>, raised |-> {},
     ret |-> NoGrid, err |-> <<>>, state |-> "running"]

\* The for loop has run out of methods.
LoopExhaustedEarly(c) == c.pos > 2
LoopExhausted(c) == c.pos > Len(FallbackMethods)

\* One iteration of the for loop: scipy's griddata either returns a grid
\* (ok) and the function returns it, or raises and the loop continues.
TryNoReturn(c, ok) ==
    LET m == FallbackMethods[c.pos]
    IN  [c EXCEPT !.tried = Append(@, m),
                  !.pos = @ + 1,
                  !.raised = IF ok THEN @ ELSE @ \cup {m},
                  !.ret = IF ok THEN [method |-> m, data |-> c.z] ELSE @]
TryMethod(c, ok) ==
    LET m == FallbackMethods[c.pos]
    IN  IF ok
        THEN [c EXCEPT !.tried = Append(@, m),
                       !.ret = [method |-> m, data |-> c.z],
                       !.state = "returned"]
        ELSE [c EXCEPT !.tried = Append(@, m),
                       !.raised = @ \cup {m},
                       !.pos = @ + 1]

\* The raise after the loop.
RaiseAll(c) == [c EXCEPT !.err = ErrorNames, !.state = "raised"]

\* The values handed to the second interpolation (line 100), whose grid
\* becomes surfacecolor; and the height values in their place.
display_values(g) == g.z_display
original_values(g) == g.z

\* scipy's griddata is a function of its arguments: whether a method raises
\* is fixed by the values it is given (the points and the grid are the same
\* in both calls), so `raises` maps each values array to the methods that
\* raise on it.
GdInit ==
    /\ vc = Idle /\ pg = Idle /\ sf = Idle /\ sa = Idle /\ nl = Idle /\ cc = Idle /\ dr = Idle /\ dl = Idle /\ cp = Idle
    /\ \E z \in SeqsUpTo(ZVals, MaxZLen) \ {<<>>}, apply \in BOOLEAN :
         \E raises \in [{z, IF apply THEN non_linear_scale_z(z) ELSE z}
                           -> SUBSET Range(FallbackMethods)] :
           gd = [pc |-> "call1",
                 z |-> z,
                 apply_nonlinear_scale |-> apply,
                 raises |-> raises,
                 z_display |-> IF apply THEN non_linear_scale_z(z) ELSE z,
                 call |-> NewCall(IF apply THEN non_linear_scale_z(z) ELSE z),
                 zi_grid |-> NoGrid,
                 zi_grid_original |-> NoGrid,
                 surface |-> "none"]

\* griddata_with_fallback tries its next method.
GdTry ==
    /\ gd.pc \in {"call1", "call2"}
    /\ gd.call.state = "running"
    /\ ~LoopExhausted(gd.call)
    /\ \E ok \in {FallbackMethods[gd.call.pos] \notin gd.raises[gd.call.z]} :
          gd' = [gd EXCEPT !.call = TryMethod(@, ok)]
    /\ UNCHANGED <<vc, pg, sf, sa, nl, cc, dr, dl, cp>>

\* griddata_with_fallback raises the ValueError; create_offset_surface does
\* not catch it.
GdRaise ==
    /\ gd.pc \in {"call1", "call2"}
    /\ gd.call.state = "running"
    /\ LoopExhausted(gd.call)
    /\ gd' = [gd EXCEPT !.call = RaiseAll(@), !.pc = "failed"]
    /\ UNCHANGED <<vc, pg, sf, sa, nl, cc, dr, dl, cp>>

\* The first call returned: zi_grid is bound, the second call starts on z.
GdSecondCall ==
    /\ gd.pc = "call1"
    /\ gd.call.state = "returned"
    /\ gd' = [gd EXCEPT !.zi_grid = gd.call.ret,
                        !.call = NewCall(original_values(gd)),
                        !.pc = "call2"]
    /\ UNCHANGED <<vc, pg, sf, sa, nl, cc, dr, dl, cp>>

\* The second call returned: the go.Surface is built.
GdSurface ==
    /\ gd.pc = "call2"
    /\ gd.call.state = "returned"
    /\ gd' = [gd EXCEPT !.zi_grid_original = gd.call.ret,
                        !.surface = "built",
                        !.pc = "done"]
    /\ UNCHANGED <<vc, pg, sf, sa, nl, cc, dr, dl, cp>>

GdNext == GdTry \/ GdRaise \/ GdSecondCall \/ GdSurface

SpecGd == GdInit /\ [][GdNext]_vars

\* C1: griddata_with_fallback tries cubic, linear, nearest in that order,
\* each at most once; the grid it returns comes from method m exactly when
\* every method before m raised and m did not, and nothing is tried after
\* the first success.
Prefix(s, t) == Len(s) <= Len(t) /\ \A i \in 1..Len(s) : s[i] = t[i]

C1_FirstSuccessInOrder ==
    gd.pc # "idle" =>
        LET c == gd.call
        IN  /\ Prefix(c.tried, <<"cubic", "linear", "nearest">>)
            /\ c.state = "returned" =>
                  /\ c.tried # <<>>
                  /\ c.ret.method = c.tried[Len(c.tried)]
                  /\ c.ret.method \notin c.raised
                  /\ c.raised = {c.tried[i] : i \in 1..(Len(c.tried) - 1)}
            /\ c.state # "returned" =>
                  /\ c.ret = NoGrid
                  /\ c.raised = Range(c.tried)

C1_Witness ==
    /\ gd.pc = "call2"
    /\ gd.call.state = "returned"
    /\ gd.call.ret.method = "nearest"
    /\ gd.call.raised = {"cubic", "linear"}

\* C2: griddata_with_fallback ends in an error exactly when cubic, linear
\* and nearest all raised; the error names the methods that were attempted;
\* otherwise it returns a grid and no error.
C2_ErrorIffAllRaised ==
    (gd.pc # "idle" /\ gd.call.state # "running") =>
        LET c == gd.call
        IN  /\ c.state = "raised" <=> c.raised = {"cubic", "linear", "nearest"}
            /\ c.state = "raised" => (c.err = c.tried /\ c.ret = NoGrid)
            /\ c.state = "returned" => (c.err = <<>> /\ c.ret # NoGrid)

C2_Witness ==
    /\ gd.pc = "failed"
    /\ gd.call.state = "raised"
    /\ gd.call.err = <<"cubic", "linear", "nearest">>
    /\ gd.zi_grid # NoGrid

\* C21: create_offset_surface takes surfacecolor from the interpolation of
\* the unscaled z; the non-linear rescaling reaches only the height grid,
\* and without it the height grid and the colour grid are identical.
C21_ColourFromUnscaledZ ==
    gd.pc = "done" =>
        /\ gd.zi_grid_original.data = gd.z
        /\ gd.zi_grid.data =
              (IF gd.apply_nonlinear_scale THEN non_linear_scale_z(gd.z) ELSE gd.z)
        /\ ~gd.apply_nonlinear_scale => gd.zi_grid = gd.zi_grid_original

\* A rescaled surface: the height grid differs from the colour grid, which
\* still holds the unscaled values.
C21_Witness ==
    /\ gd.pc = "done"
    /\ gd.apply_nonlinear_scale
    /\ gd.zi_grid.data # gd.z
    /\ gd.zi_grid_original.data = gd.z

\* ------------------------------------------------------------------------
\* show.py : validate_every_cell, _prepare_data
\* ------------------------------------------------------------------------

\* Bound: most rows of an uploaded table.
MaxRows == 2

\* Cell contents.  "<NA>" is a missing cell (None / float NaN), "  " a blank
\* string, "Z1" a point name, "1.5" a number, "inf" an infinite number (the
\* float inf or the text "inf"), "#" text that is neither a name nor a number.
CellVals == {"<NA>", "  ", "Z1", "1.5", "inf", "#"}

\* pd.isna(val)
isna(val) == val = "<NA>"

\* str(val).strip() == ""
is_blank(val) == val = "  "

\* str(val).strip()[0].isalpha()  (startswith("Z") is a case of it)
starts_alpha(val) == val \in {"Z1", "inf"}

\* float(val) returns without raising: Python's float parses "inf" and "nan".
float_parses(val) == val \in {"1.5", "inf"}

\* math.isfinite(float(val)), for a val that float() parses.
is_finite(val) == val = "1.5"

\* Column counts of uploaded tables.
ColCounts == {5, 6, 7}

\* The checks of one cell, col counted from 0 as in the loop; "ok" when the
\* loop goes on to the next cell.
cell_check(col, val) ==
    IF isna(val) \/ is_blank(val) THEN "empty"
    ELSE IF col \in {0, 2, 4} /\ ~starts_alpha(val) THEN "name"
    ELSE IF col \in {1, 3, 5} /\ ~float_parses(val) THEN "value"
    ELSE "ok"

\* A well-formed cell of column c (counted from 1).
GoodCell(c) == IF c \in {1, 3, 5} THEN "Z1" ELSE "1.5"

NoError == [row |-> 0, col |-> 0, kind |-> "none"]
NoPoints == <<"none">>

\* Uploaded tables: well-formed rows in which up to two cells, at p1 and
\* p2, hold any cell content.
VcInit ==
    /\ gd = Idle /\ pg = Idle /\ sf = Idle /\ sa = Idle /\ nl = Idle /\ cc = Idle /\ dr = Idle /\ dl = Idle /\ cp = Idle
    /\ \E nc \in ColCounts, nr \in 0..MaxRows :
         \E p1 \in ((1..nr) \X (1..nc)) \cup {<<0, 0>>},
            p2 \in ((1..nr) \X (1..nc)) \cup {<<0, 0>>},
            v1 \in CellVals, v2 \in CellVals :
           vc = [pc |-> "shape",
                 ncols |-> nc,
                 nrows |-> nr,
                 table |-> [r \in 1..nr |-> [c \in 1..nc |->
                              IF <<r, c>> = p1 THEN v1
                              ELSE IF <<r, c>> = p2 THEN v2
                              ELSE GoodCell(c)]],
                 row |-> 1,
                 col |-> 0,
                 examined |-> <<>>,
                 err |-> NoError,
                 points |-> NoPoints]

\* validate_every_cell, the shape check: df.shape[1] != 6 raises; otherwise
\* iterrows starts at the first row (and ends at once on an empty table).
VcShape ==
    /\ vc.pc = "shape"
    /\ vc' = IF vc.ncols # 6
             THEN [vc EXCEPT !.pc = "rejected",
                             !.err = [row |-> 0, col |-> 0, kind |-> "columns"]]
             ELSE IF vc.nrows = 0
             THEN [vc EXCEPT !.pc = "validated"]
             ELSE [vc EXCEPT !.pc = "cells"]
    /\ UNCHANGED <<gd, pg, sf, sa, nl, cc, dr, dl, cp>>

\* validate_every_cell, one pass of the inner loop on row[col]: the first
\* failing check raises with idx+1 and col+1 (idx is the row's label, which
\* counts rows from 0); otherwise the scan moves on, column by column and
\* then row by row, and the function returns after the last cell.
VcCell ==
    /\ vc.pc = "cells"
    /\ LET val  == vc.table[vc.row][vc.col + 1]
           kind == cell_check(vc.col, val)
           seen == Append(vc.examined, <<vc.row, vc.col + 1>>)
       IN  vc' = IF kind # "ok"
                 THEN [vc EXCEPT !.pc = "rejected",
                                 !.examined = seen,
                                 !.err = [row |-> (vc.row - 1) + 1,
                                          col |-> vc.col + 1,
                                          kind |-> kind]]
                 ELSE IF vc.col < 5
                 THEN [vc EXCEPT !.examined = seen, !.col = @ + 1]
                 ELSE IF vc.row < vc.nrows
                 THEN [vc EXCEPT !.examined = seen, !.col = 0, !.row = @ + 1]
                 ELSE [vc EXCEPT !.examined = seen, !.pc = "validated"]
    /\ UNCHANGED <<gd, pg, sf, sa, nl, cc, dr, dl, cp>>

\* _prepare_data after validate_every_cell returned: the name of the first
\* pair and the three values of each row become a point.  The radius mask
\* sqrt(x^2+y^2) <= 1.08 * max keeps every row.
prepare_points(table) ==
    [r \in 1..Len(table) |->
        [Dimple |-> table[r][1], X |-> table[r][2],
         Y |-> table[r][4], Z |-> table[r][6]]]

VcPrepare ==
    /\ vc.pc = "validated"
    /\ vc' = [vc EXCEPT !.pc = "prepared", !.points = prepare_points(vc.table)]
    /\ UNCHANGED <<gd, pg, sf, sa, nl, cc, dr, dl, cp>>

VcNext == VcShape \/ VcCell \/ VcPrepare

SpecVc == VcInit /\ [][VcNext]_vars

\* What section 4.1 of the specification accepts: exactly 6 columns and, in
\* every row, no cell empty or blank, names starting with a letter, values
\* parsing as finite floating-point numbers.
CellInvalid(c, val) ==
    \/ isna(val) \/ is_blank(val)
    \/ c \in {1, 3, 5} /\ ~starts_alpha(val)
    \/ c \in {2, 4, 6} /\ ~(float_parses(val) /\ is_finite(val))

TableValid(nc, table) ==
    /\ nc = 6
    /\ \A r \in 1..Len(table) : \A c \in 1..6 : ~CellInvalid(c, table[r][c])

VcFinished == vc.pc \in {"rejected", "validated", "prepared"}

\* C9: validate_every_cell accepts a table exactly when it has 6 columns
\* and every cell is filled, every name cell starts with a letter and every
\* value cell parses as a finite number; any other table, in particular one
\* with an inf or nan value, is rejected.
C9_AcceptsIffWellFormed ==
    VcFinished => (vc.pc # "rejected" <=> TableValid(vc.ncols, vc.table))

\* The cells before <<r, c>> in the scan order: rows top to bottom, columns
\* left to right.
Before(p, q) == p[1] < q[1] \/ (p[1] = q[1] /\ p[2] < q[2])

FirstInvalid(table) ==
    CHOOSE p \in (1..Len(table)) \X (1..6) :
        /\ CellInvalid(p[2], table[p[1]][p[2]])
        /\ \A q \in (1..Len(table)) \X (1..6) :
              CellInvalid(q[2], table[q[1]][q[2]]) => (q = p \/ Before(p, q))

\* C10: validation is all-or-nothing: when a cell of a 6-column table is
\* invalid, the error carries the row and column of the first invalid cell
\* in scan order, no cell after it is examined, and no point set is
\* produced.
C10_FirstInvalidCellAborts ==
    (VcFinished /\ vc.ncols = 6 /\ ~TableValid(6, vc.table)) =>
        LET p == FirstInvalid(vc.table)
        IN  /\ vc.pc = "rejected"
            /\ <<vc.err.row, vc.err.col>> = p
            /\ \A i \in 1..Len(vc.examined) :
                  vc.examined[i] = p \/ Before(vc.examined[i], p)
            /\ vc.points = NoPoints

\* ------------------------------------------------------------------------
\* pages/3_Dimple_3D視覺化.py : the step-profile builder
\* ------------------------------------------------------------------------

\* Bound: largest diameter a layer is given.
MaxDia == 2

\* Base heights the layers are given.
Heights == {-1, 0, 1}

\* The number of entries of default_layers: the page shows 4 input pairs.
NumLayers == 4

\* A layer or ring: (diameter, height).  number_input(min_value=0.0) keeps
\* diameters at 0 or more.
Layers == [d : 0..MaxDia, h : Heights]

Dias(layers) == {layers[i].d : i \in 1..Len(layers)}

\* list.sort(key=lambda item: item[0], reverse=True): descending by
\* diameter and stable, i.e. equal diameters keep their input order.
insert_desc(sorted, e) ==
    LET k == Cardinality({i \in 1..Len(sorted) : sorted[i].d >= e.d})
    IN  SubSeq(sorted, 1, k) \o <<e>> \o SubSeq(sorted, k + 1, Len(sorted))

RECURSIVE sort_desc(_)
sort_desc(layers) ==
    IF layers = <<>> THEN <<>>
    ELSE insert_desc(sort_desc(SubSeq(layers, 1, Len(layers) - 1)),
                     layers[Len(layers)])

\* The seen_diameters loop: a layer is kept when no earlier layer of the
\* list has its diameter.
unique_keep_last(layers) ==
    LET keep == {i \in 1..Len(layers) :
                    \A j \in (i + 1)..Len(layers) : layers[j].d # layers[i].d}
        F[i \in 0..Len(layers)] ==
            IF i = 0 THEN <<>>
            ELSE IF i \in keep THEN Append(F[i - 1], layers[i]) ELSE F[i - 1]
    IN  F[Len(layers)]
unique_by_diameter(layers) ==
    LET keep == {i \in 1..Len(layers) :
                    \A j \in 1..(i - 1) : layers[j].d # layers[i].d}
        F[i \in 0..Len(layers)] ==
            IF i = 0 THEN <<>>
            ELSE IF i \in keep THEN Append(F[i - 1], layers[i]) ELSE F[i - 1]
    IN  F[Len(layers)]

\* "not valid_layers or max(layer[0] for layer in valid_layers) <= 0"
max_not_positive(layers) == layers = <<>> \/ SetMax(Dias(layers)) <= 0

\* "len([d for d, _ in unique_layers if d > 0]) < 2"
too_few_any_diameter(unique) == Len(unique) < 2
too_few_positive(unique) ==
    Cardinality({i \in 1..Len(unique) : unique[i].d > 0}) < 2

PgInit ==
    /\ gd = Idle /\ vc = Idle /\ sf = Idle /\ sa = Idle /\ nl = Idle /\ cc = Idle /\ dr = Idle /\ dl = Idle /\ cp = Idle
    /\ \E layers \in [1..NumLayers -> Layers] :
           pg = [pc |-> "validate",
                 user_layers |-> layers,
                 valid_layers |-> layers,
                 unique_layers |-> <<>>,
                 message |-> "none",
                 figure |-> "none"]

\* Lines 309-312: every number_input returns a number, so valid_layers holds
\* all four layers; st.error and st.stop() on a non-positive maximum.
PgValidate ==
    /\ pg.pc = "validate"
    /\ pg' = IF max_not_positive(pg.valid_layers)
             THEN [pg EXCEPT !.pc = "stopped", !.message = "outer_diameter"]
             ELSE [pg EXCEPT !.pc = "normalize"]
    /\ UNCHANGED <<gd, vc, sf, sa, nl, cc, dr, dl, cp>>

\* Lines 315-321: sort in place, then drop repeated diameters.
PgNormalize ==
    /\ pg.pc = "normalize"
    /\ pg' = [pg EXCEPT !.valid_layers = sort_desc(pg.valid_layers),
                        !.unique_layers = unique_by_diameter(sort_desc(pg.valid_layers)),
                        !.pc = "count"]
    /\ UNCHANGED <<gd, vc, sf, sa, nl, cc, dr, dl, cp>>

\* Lines 323-327: st.error and st.stop() on fewer than two positive
\* diameters, st.success otherwise.
PgCount ==
    /\ pg.pc = "count"
    /\ pg' = IF too_few_positive(pg.unique_layers)
             THEN [pg EXCEPT !.pc = "stopped", !.message = "two_diameters"]
             ELSE [pg EXCEPT !.pc = "accepted", !.message = "success"]
    /\ UNCHANGED <<gd, vc, sf, sa, nl, cc, dr, dl, cp>>

\* Line 363: show.create_dimple_3d_visualization builds the stepped surface
\* and classifies the points, or raises (caught at line 368).
PgVisualize ==
    /\ pg.pc = "accepted"
    /\ \E ok \in BOOLEAN :
          pg' = [pg EXCEPT !.pc = IF ok THEN "rendered" ELSE "stopped",
                           !.figure = IF ok THEN "built" ELSE "none",
                           !.message = IF ok THEN @ ELSE "exception"]
    /\ UNCHANGED <<gd, vc, sf, sa, nl, cc, dr, dl, cp>>

PgNext == PgValidate \/ PgNormalize \/ PgCount \/ PgVisualize

SpecPg == PgInit /\ [][PgNext]_vars

\* C7: the builder reports an error and stops, building no surface and
\* classifying no point, exactly when the largest entered diameter is <= 0
\* or fewer than 2 distinct positive diameters were entered; it accepts the
\* profile otherwise.
ProfileBad(layers) ==
    \/ \A i \in 1..Len(layers) : layers[i].d <= 0
    \/ Cardinality({d \in Dias(layers) : d > 0}) < 2

C7_ProfileErrorIffBad ==
    /\ pg.pc \in {"accepted", "rendered"} => ~ProfileBad(pg.user_layers)
    /\ (pg.pc = "stopped" /\ pg.message # "exception") =>
          /\ ProfileBad(pg.user_layers)
          /\ pg.message \in {"outer_diameter", "two_diameters"}
          /\ pg.figure = "none"
          /\ ~ENABLED PgNext
    /\ pg.figure = "built" => ~ProfileBad(pg.user_layers)

C7_Witness ==
    /\ pg.pc = "stopped"
    /\ pg.message = "two_diameters"
    /\ Len(pg.unique_layers) = 2
    /\ pg.unique_layers[2].d = 0

\* C8: normalization yields rings with pairwise distinct diameters in
\* strictly descending order, one for every distinct input diameter, and a
\* diameter entered more than once keeps the height of its first occurrence
\* in input order.
FirstAt(layers, d) ==
    CHOOSE i \in 1..Len(layers) :
        layers[i].d = d /\ \A j \in 1..(i - 1) : layers[j].d # d

C8_NormalizedProfile ==
    pg.pc \in {"count", "accepted", "rendered"} \/ pg.unique_layers # <<>> =>
        LET u == pg.unique_layers
        IN  /\ \A i \in 1..Len(u) : \A j \in (i + 1)..Len(u) : u[i].d > u[j].d
            /\ Dias(u) = Dias(pg.user_layers)
            /\ \A k \in 1..Len(u) :
                  u[k].h = pg.user_layers[FirstAt(pg.user_layers, u[k].d)].h

C8_Witness ==
    /\ pg.pc = "accepted"
    /\ Len(pg.unique_layers) = 2
    /\ pg.user_layers[1].d = pg.user_layers[3].d
    /\ pg.user_layers[1].h # pg.user_layers[3].h
    /\ pg.user_layers[2].d > pg.user_layers[1].d

\* ------------------------------------------------------------------------
\* show.py : _build_stepped_bowl_surface, get_step_height,
\* get_original_step_height, create_dimple_3d_visualization
\* ------------------------------------------------------------------------

\* Bound: most rings of a base_profile.
MaxRings == 3

\* z_scale values and grid resolutions _build_stepped_bowl_surface is given.
Scales == {-1, 1, 2}
Resolutions == {2, 3, 4, 5}

\* Measured points (x_in, y_in), in half units: on the x axis, where a point
\* can lie exactly on a ring, and beside it, out to beyond the largest ring.
Points == (0..(MaxDia + 1)) \X (0..1)

\* np.sqrt(x_val**2 + y_val**2) <= dia / 2.0, for a point in half units.
within_strict(pt, dia) == pt[1] * pt[1] + pt[2] * pt[2] < dia * dia
within(pt, dia) == pt[1] * pt[1] + pt[2] * pt[2] <= dia * dia

\* The grid: np.linspace(-outer_radius, outer_radius, resolution) on both
\* axes.  Cell <<i, j>> (counted from 0) lies at outer_radius * K(i)/(n-1),
\* outer_radius * K(j)/(n-1); outer_dia is 2 * outer_radius.
Cells(n) == (0..(n - 1)) \X (0..(n - 1))
K(i, n) == 2 * i - (n - 1)
CellR2(c, n) == K(c[1], n) * K(c[1], n) + K(c[2], n) * K(c[2], n)

\* R > outer_radius
cell_outside(c, n, outer_dia) ==
    outer_dia * outer_dia * CellR2(c, n) > outer_dia * outer_dia * (n - 1) * (n - 1)

\* R <= dia / 2.0
cell_in_ring(c, n, outer_dia, dia) ==
    outer_dia * outer_dia * CellR2(c, n) <= dia * dia * (n - 1) * (n - 1)

NaN == [nan |-> TRUE, v |-> 0]
Num(v) == [nan |-> FALSE, v |-> v]

\* Z after the loop over the sorted steps: each step overwrites the cells
\* within its radius, so a cell ends with the last step that contains it,
\* or with its initial value (0, or nan outside outer_radius).
cell_z(sorted, c, n, outer_dia, z_scale) ==
    LET hit == {t \in 1..Len(sorted) : cell_in_ring(c, n, outer_dia, sorted[t].d)}
    IN  IF hit # {} THEN Num(sorted[SetMax(hit)].h * z_scale)
        ELSE IF cell_outside(c, n, outer_dia) THEN NaN
        ELSE Num(0)

\* scaled_steps as appended in the loop, before the shift.
scale_steps(sorted, z_scale) ==
    [t \in 1..Len(sorted) |-> [d |-> sorted[t].d, h |-> sorted[t].h * z_scale]]

\* top_value: np.max(Z[finite_mask]).
top_of_rings(Z, scaled) == SetMax({scaled[t].h : t \in 1..Len(scaled)})
top_of_grid(Z, scaled) == SetMax({Z[c].v : c \in {c \in DOMAIN Z : ~Z[c].nan}})

\* The scaled_steps the function returns: shifted by top_value.
steps_not_shifted(scaled, top) == scaled
shift_steps(scaled, top) ==
    [t \in 1..Len(scaled) |-> [d |-> scaled[t].d, h |-> scaled[t].h - top]]

\* Lines 116-122: the shift of Z and of scaled_steps when the grid has a
\* finite cell.
top_align(Z, scaled) ==
    IF \E c \in DOMAIN Z : ~Z[c].nan
    THEN UNION {{[Z |-> [c \in DOMAIN Z |->
                          IF Z[c].nan THEN NaN ELSE Num(Z[c].v - top)],
                  scaled_steps |-> shift_steps(scaled, top)]}
                : top \in {top_of_grid(Z, scaled)}}
    ELSE {[Z |-> Z, scaled_steps |-> scaled]}

\* _build_stepped_bowl_surface(steps, outer_radius, resolution, z_scale):
\* returns Z and scaled_steps (X and Y are the grid itself).  Each stage is
\* computed once and handed to the next.
build_stepped_bowl_surface(steps, outer_dia, resolution, z_scale) ==
    CHOOSE bowl \in
        UNION {UNION {top_align(Z, scale_steps(sorted, z_scale))
                      : Z \in {[c \in Cells(resolution) |->
                                  cell_z(sorted, c, resolution, outer_dia, z_scale)]}}
               : sorted \in {sort_desc(steps)}} : TRUE

\* get_step_height, on the steps sorted by descending diameter: the first
\* step whose radius the point does not exceed; 0.0 when there is none.
first_hit(sorted, pt) ==
    LET hit == {t \in 1..Len(sorted) : within(pt, sorted[t].d)}
    IN  IF hit = {} THEN 0
        ELSE sorted[CHOOSE t \in hit : \A u \in hit : t <= u].h

get_step_height(scaled_steps, pt) ==
    CHOOSE h \in {first_hit(sorted, pt) : sorted \in {sort_desc(scaled_steps)}} : TRUE

\* get_original_step_height, the loop over sorted_profile from step t on;
\* prev is <<prev_depth>>, or <<>> while prev_depth is None.
RECURSIVE original_scan_strict(_, _, _, _)
original_scan_strict(sorted, pt, t, prev) ==
    IF t > Len(sorted)
    THEN IF sorted # <<>> THEN sorted[Len(sorted)].h ELSE 0
    ELSE IF ~within_strict(pt, sorted[t].d)
         THEN IF prev # <<>> THEN prev[1] ELSE sorted[t].h
         ELSE original_scan_strict(sorted, pt, t + 1, <<sorted[t].h>>)

RECURSIVE original_scan(_, _, _, _)
original_scan(sorted, pt, t, prev) ==
    IF t > Len(sorted)
    THEN IF sorted # <<>> THEN sorted[Len(sorted)].h ELSE 0
    ELSE IF ~within(pt, sorted[t].d)
         THEN IF prev # <<>> THEN prev[1] ELSE sorted[t].h
         ELSE original_scan(sorted, pt, t + 1, <<sorted[t].h>>)

get_original_boundary_outside(base_profile, pt) ==
    CHOOSE h \in {original_scan_strict(sorted, pt, 1, <<>>)
                  : sorted \in {sort_desc(base_profile)}} : TRUE
get_original_step_height(base_profile, pt) ==
    CHOOSE h \in {original_scan(sorted, pt, 1, <<>>)
                  : sorted \in {sort_desc(base_profile)}} : TRUE

\* "if base_profile and len(base_profile) >= 2"
has_profile(base_profile) == Len(base_profile) >= 2

NoSurface == [Z |-> <<>>, scaled_steps |-> <<>>]

\* The profiles create_dimple_3d_visualization is handed: rings of pairwise
\* distinct diameters in any order (the page builder removes repeated
\* diameters), and any profile of at most two rings.
DistinctDias(profile) ==
    \A i \in 1..Len(profile) : \A j \in (i + 1)..Len(profile) :
        profile[i].d # profile[j].d

SfProfiles ==
    {p \in SeqsUpTo(Layers, MaxRings) : Len(p) <= 2 \/ DistinctDias(p)}

SfInit ==
    /\ gd = Idle /\ vc = Idle /\ pg = Idle /\ sa = Idle /\ nl = Idle /\ cc = Idle /\ dr = Idle /\ dl = Idle /\ cp = Idle
    /\ \E profile \in SfProfiles :
           sf = [pc |-> "start",
                 base_profile |-> profile,
                 z_scale |-> 1,
                 resolution |-> 0,
                 bowl |-> NoSurface,
                 step_heights |-> <<>>,
                 bowl_heights |-> <<>>]

\* create_dimple_3d_visualization with a profile of two or more rings: the
\* stepped surface is built with outer_radius = max diameter / 2, and every
\* measured point gets its ring height.  step_heights holds what
\* get_step_height returns for the same points.
SfBuild ==
    /\ sf.pc = "start"
    /\ has_profile(sf.base_profile)
    /\ \E n \in Resolutions, k \in Scales :
         \E bowl \in {build_stepped_bowl_surface(
                        sf.base_profile, SetMax(Dias(sf.base_profile)), n, k)} :
             sf' = [sf EXCEPT
                      !.pc = "built",
                      !.z_scale = k,
                      !.resolution = n,
                      !.bowl = bowl,
                      !.step_heights =
                          [pt \in Points |-> get_step_height(bowl.scaled_steps, pt)],
                      !.bowl_heights =
                          [pt \in Points |-> get_original_step_height(sf.base_profile, pt)]]
    /\ UNCHANGED <<gd, vc, pg, sa, nl, cc, dr, dl, cp>>

\* create_dimple_3d_visualization without a usable profile: no surface,
\* every point at step height 0.0.
SfFlat ==
    /\ sf.pc = "start"
    /\ ~has_profile(sf.base_profile)
    /\ sf' = [sf EXCEPT !.pc = "flat",
                        !.bowl_heights = [pt \in Points |-> 0]]
    /\ UNCHANGED <<gd, vc, pg, sa, nl, cc, dr, dl, cp>>

SfNext == SfBuild \/ SfFlat

SpecSf == SfInit /\ [][SfNext]_vars

\* A profile the page builder accepts: pairwise distinct diameters, at
\* least two of them positive.
Accepted(profile) ==
    /\ DistinctDias(profile)
    /\ Cardinality({d \in Dias(profile) : d > 0}) >= 2

SfBuiltAccepted == sf.pc = "built" /\ Accepted(sf.base_profile)

\* The rings of a profile whose radius is at least the radius of pt.
Containing(profile, pt) == {i \in 1..Len(profile) : within(pt, profile[i].d)}

\* The ring of smallest diameter among the rings I of a profile.
Smallest(profile, I) == CHOOSE i \in I : \A j \in I : profile[i].d <= profile[j].d

\* The ring of largest diameter of a profile.
Outermost(profile) ==
    CHOOSE i \in 1..Len(profile) : \A j \in 1..Len(profile) : profile[i].d >= profile[j].d

Innermost(profile) == Smallest(profile, 1..Len(profile))

\* C3: get_step_height returns the height of the smallest ring whose radius
\* is >= the point's radius, and 0 when the point is outside every ring; at
\* the origin it returns the innermost ring's scaled height.  Stated for the
\* scaled profile create_dimple_3d_visualization builds (z_scale = 1).
C3_SmallestContainingRing ==
    (SfBuiltAccepted /\ sf.z_scale = 1 /\ sf.resolution = 5) =>
        LET steps == sf.bowl.scaled_steps
        IN  /\ \A pt \in Points :
                 sf.step_heights[pt] =
                    IF Containing(steps, pt) = {} THEN 0
                    ELSE steps[Smallest(steps, Containing(steps, pt))].h
            /\ sf.step_heights[<<0, 0>>] = steps[Innermost(steps)].h

\* C4: get_original_step_height returns the outermost ring's height for a
\* point beyond the outermost ring, and otherwise the height of the
\* smallest ring that contains the point, a point on a ring's radius being
\* within that ring: the innermost ring's height when the point is within
\* all rings.  It always returns a height of the profile.
C4_OriginalRing ==
    SfBuiltAccepted =>
        LET profile == sf.base_profile
        IN  \A pt \in Points :
              /\ sf.bowl_heights[pt] =
                    IF Containing(profile, pt) = {}
                    THEN profile[Outermost(profile)].h
                    ELSE profile[Smallest(profile, Containing(profile, pt))].h
              /\ Containing(profile, pt) = 1..Len(profile) =>
                    sf.bowl_heights[pt] = profile[Innermost(profile)].h
              /\ \E i \in 1..Len(profile) : sf.bowl_heights[pt] = profile[i].h

C4_Witness ==
    /\ SfBuiltAccepted
    /\ Len(sf.base_profile) = 3
    /\ sf.base_profile[1].d = 1 /\ sf.base_profile[2].d = 2 /\ sf.base_profile[3].d = 0
    /\ sf.base_profile[1].h = 1 /\ sf.base_profile[2].h = -1 /\ sf.base_profile[3].h = 0
    /\ sf.bowl_heights[<<0, 0>>] = 0
    /\ sf.bowl_heights[<<1, 0>>] = 1
    /\ sf.bowl_heights[<<2, 0>>] = -1
    /\ sf.bowl_heights[<<3, 0>>] = -1

\* The height of the outermost ring in the scaled profile.
OuterScaled == sf.bowl.scaled_steps[Outermost(sf.bowl.scaled_steps)].h

\* C5 as written: for every accepted profile and every scale factor the
\* outermost ring of the scaled profile is at height exactly 0.  Stated for
\* the scale factors >= 0 and the grids that have a finite cell.
C5_OuterRingAlwaysZero ==
    (SfBuiltAccepted /\ sf.z_scale >= 0 /\ \E c \in DOMAIN sf.bowl.Z : ~sf.bowl.Z[c].nan)
    => OuterScaled = 0

\* A grid cell lies in the outermost ring and in no smaller ring.
OuterRingOnGrid ==
    LET profile == sf.base_profile
        o       == Outermost(profile)
    IN  \E c \in Cells(sf.resolution) :
            /\ cell_in_ring(c, sf.resolution, profile[o].d, profile[o].d)
            /\ \A i \in 1..Len(profile) :
                  i # o => ~cell_in_ring(c, sf.resolution, profile[o].d, profile[i].d)

\* C5 amended: the outermost ring of the scaled profile is at height exactly
\* 0 when the scale factor is >= 0, no ring has a base height above the
\* outermost ring's, and some grid cell lies in the outermost ring and in no
\* smaller ring.
C5_OuterRingZeroWhenTopmost ==
    (/\ SfBuiltAccepted
     /\ sf.z_scale >= 0
     /\ \A i \in 1..Len(sf.base_profile) :
           sf.base_profile[i].h <= sf.base_profile[Outermost(sf.base_profile)].h
     /\ OuterRingOnGrid)
    => OuterScaled = 0

C5_Witness ==
    /\ SfBuiltAccepted
    /\ sf.z_scale = 2
    /\ sf.resolution = 5
    /\ OuterRingOnGrid
    /\ Len(sf.base_profile) = 3
    /\ OuterScaled = 0
    /\ \E i \in 1..3 : sf.bowl.scaled_steps[i].h = -4

\* C6 as written: every ring gets baseHeight*scaleFactor minus the maximum
\* of baseHeight*scaleFactor over all rings of the profile, so the largest
\* scaled ring height is 0 and none is above 0, whatever the resolution.
\* Stated for the scale factors >= 0 and the grids that have a finite cell.
C6_ShiftByProfileMaximum ==
    (SfBuiltAccepted /\ sf.z_scale >= 0 /\ \E c \in DOMAIN sf.bowl.Z : ~sf.bowl.Z[c].nan) =>
        LET steps   == sf.bowl.scaled_steps
            profile == sort_desc(sf.base_profile)
            top     == SetMax({profile[i].h * sf.z_scale : i \in 1..Len(profile)})
        IN  /\ \A i \in 1..Len(steps) : steps[i].h = profile[i].h * sf.z_scale - top
            /\ \A i \in 1..Len(steps) : steps[i].h <= 0
            /\ \E i \in 1..Len(steps) : steps[i].h = 0

\* The finite cells of the built grid, and the ring a cell is drawn at: the
\* smallest ring that contains it.
FiniteCells == {c \in DOMAIN sf.bowl.Z : ~sf.bowl.Z[c].nan}

RingOfCell(steps, c) ==
    Smallest(steps, {i \in 1..Len(steps) :
        cell_in_ring(c, sf.resolution, steps[Outermost(steps)].d, steps[i].d)})

\* C6 amended: the shift is the maximum height on the stepped grid, not the
\* maximum over the rings of the profile.  Every ring keeps its scaled
\* height relative to the others (differences are baseHeight*scaleFactor
\* differences); when the grid has a finite cell every finite cell is drawn
\* at the scaled height of its ring, the largest height on the grid is 0 and
\* no ring that owns a grid cell is above 0; when the grid has no finite
\* cell the heights are baseHeight*scaleFactor, unshifted.
C6_ShiftByGridMaximum ==
    SfBuiltAccepted =>
        LET steps   == sf.bowl.scaled_steps
            profile == sort_desc(sf.base_profile)
        IN  /\ Len(steps) = Len(profile)
            /\ \A i \in 1..Len(steps) :
                  /\ steps[i].d = profile[i].d
                  /\ steps[i].h - steps[1].h = (profile[i].h - profile[1].h) * sf.z_scale
            /\ \A c \in FiniteCells :
                  /\ sf.bowl.Z[c].v = steps[RingOfCell(steps, c)].h
                  /\ sf.bowl.Z[c].v <= 0
            /\ FiniteCells # {} => \E c \in FiniteCells : sf.bowl.Z[c].v = 0
            /\ FiniteCells = {} => steps[1].h = profile[1].h * sf.z_scale

\* A ring that owns no grid cell ends above 0 while the grid is top-aligned.
C6_Witness ==
    /\ SfBuiltAccepted
    /\ FiniteCells # {}
    /\ \E c \in FiniteCells : sf.bowl.Z[c].v = 0
    /\ \E i \in 1..Len(sf.bowl.scaled_steps) : sf.bowl.scaled_steps[i].h > 0

\* ------------------------------------------------------------------------
\* pages/3_Dimple_3D視覺化.py and pages/5_穿透率視覺化.py : dispersion
\* statistics (mean, sample standard deviation, sigma bands) and Cpk
\* ------------------------------------------------------------------------

\* Bound: longest column the statistics are computed on.
MaxN == 5

\* A cell of the column after conversion to float: a finite value (in units
\* u), NaN (an empty cell, or text that to_numeric coerces) or +inf.
Fin(v) == [k |-> "num", v |-> v]
NotANumber == [k |-> "nan", v |-> 0]
Infinite == [k |-> "inf", v |-> 0]

FiniteVals == 1..6
Entries == {Fin(v) : v \in FiniteVals} \cup {NotANumber, Infinite}

\* The statistics do not depend on the order of the column; the columns
\* explored are the ones listed as finite values ascending, then inf, then NaN.
InOrder(a, b) ==
    \/ b.k = "nan"
    \/ b.k = "inf" /\ a.k # "nan"
    \/ a.k = "num" /\ b.k = "num" /\ a.v <= b.v

RECURSIVE Columns(_)
Columns(n) ==
    IF n = 0 THEN {<<>>}
    ELSE LET shorter == Columns(n - 1)
         IN  shorter \cup
             {Append(c, e) : <<c, e>> \in
                 {p \in shorter \X Entries :
                     /\ Len(p[1]) = n - 1
                     /\ (p[1] = <<>> \/ InOrder(p[1][Len(p[1])], p[2]))}}

\* USL and LSL as typed into the two number inputs, in hundredths of u.
SpecRanges ==
    {<<1000, 0>>, <<1001, -1>>, <<899, 101>>, <<800, 200>>,
     <<500, 500>>, <<0, 1000>>, <<1000, 200>>, <<400, 0>>}

\* The three band edges 1.67, 1.33 and 1.0, in hundredths.
CpkExcellent == 167
CpkGood == 133
CpkAcceptable == 100

\* A float of the analysis.  k = "num" is the exact quotient described where
\* the value is built; "nan", "inf", "-inf" are the IEEE specials; "none" is
\* Python's None; "unbound" is a name that was never assigned.
Q(k, num, ss, n) == [k |-> k, num |-> num, ss |-> ss, n |-> n]
Special(k) == Q(k, 0, 0, 0)

RECURSIVE Sum(_)
Sum(xs) == IF xs = <<>> THEN 0 ELSE Head(xs) + Sum(Tail(xs))

Squares(xs) == [i \in 1..Len(xs) |-> xs[i] * xs[i]]

IsNum(e) == e.k = "num"
NotNa(e) == e.k # "nan"
Values(col) == [i \in 1..Len(col) |-> col[i].v]

\* np.isfinite mask of line 223.
finite_only(col) == SelectSeq(col, IsNum)

\* Series.mean(): NaN entries are skipped; the mean of nothing is NaN and a
\* sum that holds inf is inf.  A "num" mean is num / n.
series_mean(col) ==
    LET kept == SelectSeq(col, NotNa)
    IN  IF kept = <<>> THEN Special("nan")
        ELSE IF \E i \in 1..Len(kept) : kept[i].k = "inf" THEN Special("inf")
        ELSE Q("num", Sum(Values(kept)), 0, Len(kept))

\* Series.std(ddof=1) over the entries that are not NaN: NaN for fewer than
\* two of them (division by n - 1 = 0) and when one is inf (inf - inf).
\* A "num" deviation is sqrt(ss / (n * (n - 1))), where
\* ss = n * sum(x^2) - sum(x)^2; it is 0 exactly when ss = 0.
series_std(col) ==
    LET kept == SelectSeq(col, NotNa)
        n == Len(kept)
        xs == Values(kept)
    IN  IF n < 2 THEN Special("nan")
        ELSE IF \E i \in 1..n : kept[i].k = "inf" THEN Special("nan")
        ELSE Q("num", 0, n * Sum(Squares(xs)) - Sum(xs) * Sum(xs), n)

\* The float 0.0 that line 228 of the transmittance page uses for one value.
ZeroStd(n) == Q("num", 0, 0, n)

std_positive(s) == s.k = "num" /\ s.ss > 0
std_zero(s) == s.k = "num" /\ s.ss = 0

\* v >= mean - k*std and v <= mean + k*std for a value v, with mean
\* m and deviation s of the same n entries.  With d = n * (mean - v) the
\* first is d <= k * sqrt(n * ss / (n - 1)); a comparison with NaN is False.
ge_lower_strict(v, m, s, k) ==
    /\ m.k = "num" /\ s.k = "num"
    /\ LET d == m.num - v * m.n
       IN  d < 0 \/ d * d * (s.n - 1) < k * k * s.n * s.ss
ge_lower(v, m, s, k) ==
    /\ m.k = "num" /\ s.k = "num"
    /\ LET d == m.num - v * m.n
       IN  d <= 0 \/ d * d * (s.n - 1) <= k * k * s.n * s.ss

le_upper(v, m, s, k) ==
    /\ m.k = "num" /\ s.k = "num"
    /\ LET d == v * m.n - m.num
       IN  d <= 0 \/ d * d * (s.n - 1) <= k * k * s.n * s.ss

\* A band of half-width std / k, which narrows as k grows.
count_within_narrowing(col, m, s, k) ==
    Cardinality({i \in 1..Len(col) :
        /\ col[i].k = "num"
        /\ ge_lower(k * col[i].v, Q("num", k * m.num, 0, m.n), s, 1)
        /\ le_upper(k * col[i].v, Q("num", k * m.num, 0, m.n), s, 1)})

\* len(z[(z >= mean - k*std) & (z <= mean + k*std)])
count_within(col, m, s, k) ==
    Cardinality({i \in 1..Len(col) :
        /\ col[i].k = "num"
        /\ ge_lower(col[i].v, m, s, k)
        /\ le_upper(col[i].v, m, s, k)})

\* (usl - mean) / (3 * std) and (mean - lsl) / (3 * std) as numpy.float64
\* divides.  num is n * (limit - mean) in hundredths of u (the mean is in
\* units u), so a "num" quotient is num / (300 * sqrt(n * ss / (n - 1))).  A deviation
\* of 0 gives inf, -inf or NaN by the sign of the numerator; NaN propagates.
float_divide(num, m, s) ==
    IF m.k # "num" \/ s.k # "num" THEN Special("nan")
    ELSE IF s.ss = 0
         THEN (IF num > 0 THEN Special("inf")
               ELSE IF num < 0 THEN Special("-inf") ELSE Special("nan"))
         ELSE Q("num", num, s.ss, s.n)

upper_num(usl, m) == usl * m.n - 100 * m.num
lower_num(lsl, m) == 100 * m.num - lsl * m.n

\* a < b on floats; two "num" quotients of one analysis share the divisor.
float_lt(a, b) ==
    CASE a.k = "nan" \/ b.k = "nan" -> FALSE
      [] a.k = "-inf" -> b.k # "-inf"
      [] a.k = "inf" -> FALSE
      [] b.k = "inf" -> TRUE
      [] b.k = "-inf" -> FALSE
      [] OTHER -> a.num < b.num

\* Python's min(a, b): b when b < a, else a.
max_of(a, b) == IF float_lt(a, b) THEN b ELSE a
min_of(a, b) == IF float_lt(b, a) THEN b ELSE a

\* c >= t / 100 for a band edge t > 0.
above_edge(c, t) ==
    CASE c.k = "inf" -> TRUE
      [] c.k = "num" ->
            c.num > 0 /\ c.num * c.num * (c.n - 1) > 9 * t * t * c.n * c.ss
      [] OTHER -> FALSE
at_least(c, t) ==
    CASE c.k = "inf" -> TRUE
      [] c.k = "num" ->
            c.num > 0 /\ c.num * c.num * (c.n - 1) >= 9 * t * t * c.n * c.ss
      [] OTHER -> FALSE

\* A chain whose first test uses the second edge.
band_of_low_edge(cpk) ==
    IF at_least(cpk, CpkGood) THEN "excellent"
    ELSE IF at_least(cpk, CpkAcceptable) THEN "acceptable"
    ELSE "needs improvement"

\* The if / elif chain over the three band edges.
band_of(cpk) ==
    IF at_least(cpk, CpkExcellent) THEN "excellent"
    ELSE IF at_least(cpk, CpkGood) THEN "good"
    ELSE IF at_least(cpk, CpkAcceptable) THEN "acceptable"
    ELSE "needs improvement"

\* The guard of the transmittance page's Cpk block, and the same guard
\* without its test of the deviation.
range_only(s, usl, lsl) == usl > lsl
cpk_computable(s, usl, lsl) == std_positive(s) /\ usl > lsl

\* The placeholder `cpk = 0` of the dimple page.
Zero == Q("num", 0, 1, 2)

Unset == Special("unset")

SaInit ==
    /\ gd = Idle /\ vc = Idle /\ pg = Idle /\ sf = Idle /\ nl = Idle /\ cc = Idle /\ dr = Idle /\ dl = Idle /\ cp = Idle
    /\ \E column \in Columns(MaxN), range \in SpecRanges,
          page \in {"dimple", "transmittance"} :
          \* the dimple page stops on an empty DataFrame before the statistics
          /\ page = "dimple" => column # <<>>
          /\ sa = [pc |-> IF page = "dimple" THEN "stats" ELSE "series",
                   page |-> page, column |-> column,
                   usl |-> range[1], lsl |-> range[2],
                   series |-> <<>>, mean |-> Unset, std |-> Unset,
                   within |-> <<0, 0, 0>>, total |-> 0,
                   cpk_upper |-> Special("unbound"),
                   cpk_lower |-> Special("unbound"),
                   cpk |-> Special("unbound"),
                   status |-> "unbound", raised |-> "none"]

\* Transmittance page, lines 222-225: coerce, keep the finite entries, warn
\* when nothing is left.
TrSeries ==
    /\ sa.pc = "series"
    /\ \E series \in {finite_only(sa.column)} :
          sa' = [sa EXCEPT !.series = series,
                           !.pc = IF series = <<>> THEN "done" ELSE "stats",
                           !.status = IF series = <<>> THEN "no data" ELSE @]
    /\ UNCHANGED <<gd, vc, pg, sf, nl, cc, dr, dl, cp>>

\* Transmittance page, lines 227-240.
TrStats ==
    /\ sa.pc = "stats" /\ sa.page = "transmittance"
    /\ \E m \in {series_mean(sa.series)},
          s \in {IF Len(sa.series) > 1 THEN series_std(sa.series)
                 ELSE ZeroStd(Len(sa.series))} :
          sa' = [sa EXCEPT
                    !.mean = m, !.std = s,
                    !.within = [k \in 1..3 |->
                                   IF std_positive(s)
                                   THEN count_within(sa.series, m, s, k)
                                   ELSE Len(sa.series)],
                    !.total = Len(sa.series),
                    !.pc = "cpk"]
    /\ UNCHANGED <<gd, vc, pg, sf, nl, cc, dr, dl, cp>>

\* Transmittance page, lines 243-262.
TrCpk ==
    /\ sa.pc = "cpk" /\ sa.page = "transmittance"
    /\ IF cpk_computable(sa.std, sa.usl, sa.lsl)
       THEN \E up \in {float_divide(upper_num(sa.usl, sa.mean), sa.mean, sa.std)},
               lo \in {float_divide(lower_num(sa.lsl, sa.mean), sa.mean, sa.std)} :
               sa' = [sa EXCEPT !.cpk_upper = up, !.cpk_lower = lo,
                                !.cpk = min_of(up, lo),
                                !.status = band_of(min_of(up, lo)),
                                !.pc = "done"]
       ELSE sa' = [sa EXCEPT !.cpk_upper = Special("none"),
                             !.cpk_lower = Special("none"),
                             !.cpk = Special("none"),
                             !.status = IF std_zero(sa.std)
                                        THEN "zero variance"
                                        ELSE "invalid spec range",
                             !.pc = "done"]
    /\ UNCHANGED <<gd, vc, pg, sf, nl, cc, dr, dl, cp>>

\* Dimple page, lines 132-147: the whole column is the sample.
DpStats ==
    /\ sa.pc = "stats" /\ sa.page = "dimple"
    /\ \E m \in {series_mean(sa.column)}, s \in {series_std(sa.column)} :
          sa' = [sa EXCEPT
                    !.series = sa.column,
                    !.mean = m, !.std = s,
                    !.within = [k \in 1..3 |-> count_within(sa.column, m, s, k)],
                    !.total = Len(sa.column),
                    !.pc = "cpk"]
    /\ UNCHANGED <<gd, vc, pg, sf, nl, cc, dr, dl, cp>>

\* Dimple page, lines 172-178.
DpCpk ==
    /\ sa.pc = "cpk" /\ sa.page = "dimple"
    /\ IF sa.usl > sa.lsl
       THEN \E up \in {float_divide(upper_num(sa.usl, sa.mean), sa.mean, sa.std)},
               lo \in {float_divide(lower_num(sa.lsl, sa.mean), sa.mean, sa.std)} :
               sa' = [sa EXCEPT !.cpk_upper = up, !.cpk_lower = lo,
                                !.cpk = min_of(up, lo), !.pc = "status"]
       ELSE sa' = [sa EXCEPT !.cpk = Zero, !.pc = "status"]
    /\ UNCHANGED <<gd, vc, pg, sf, nl, cc, dr, dl, cp>>

\* Dimple page, lines 198-226: the Cpk metric, the band, then the two lines
\* that read cpk_upper and cpk_lower (a NameError when they were never bound,
\* caught by the page's `except Exception`).
DpStatus ==
    /\ sa.pc = "status"
    /\ sa' = [sa EXCEPT !.status = band_of(sa.cpk),
                        !.raised = IF sa.cpk_upper.k = "unbound"
                                   THEN "NameError" ELSE @,
                        !.pc = "done"]
    /\ UNCHANGED <<gd, vc, pg, sf, nl, cc, dr, dl, cp>>

SaNext == TrSeries \/ TrStats \/ TrCpk \/ DpStats \/ DpCpk \/ DpStatus

SpecSa == SaInit /\ [][SaNext]_vars

\* ------------------------------------------------------------ properties

\* mean, std, the three band counts and total have been computed.
StatsDone == sa.pc \in {"cpk", "status", "done"} /\ sa.mean.k # "unset"

\* C11: on both pages the band counts are nested:
\* within 1 sigma <= within 2 sigma <= within 3 sigma <= total.
C11_BandsNested ==
    StatsDone =>
        /\ sa.within[1] <= sa.within[2]
        /\ sa.within[2] <= sa.within[3]
        /\ sa.within[3] <= sa.total

\* A dimple-page sample whose bands really differ: the second band holds
\* more than the first, and an empty cell keeps the third below total.
C11_Witness ==
    /\ StatsDone /\ sa.page = "dimple"
    /\ sa.within[1] > 0
    /\ sa.within[1] < sa.within[2]
    /\ sa.within[3] < sa.total

\* C12: on both pages, a standard deviation of 0 puts every entry in every
\* band: the three band counts equal total.
C12_ZeroStdAllCounted ==
    (StatsDone /\ std_zero(sa.std)) =>
        \A k \in 1..3 : sa.within[k] = sa.total

\* The finite values of the column, which the specification calls the sample.
FiniteSample == Values(finite_only(sa.column))

\* n * (n - 1) * variance under the sample (n - 1) definition.
SampleSS(xs) == Len(xs) * Sum(Squares(xs)) - Sum(xs) * Sum(xs)

\* C13: on both pages the standard deviation is the sample (n - 1) deviation
\* of the finite values, and it is 0 (never NaN) when there are fewer than
\* two of them.
C13_SampleStdOrZero ==
    StatsDone =>
        IF Len(FiniteSample) < 2
        THEN std_zero(sa.std)
        ELSE /\ sa.std.k = "num"
             /\ sa.std.n = Len(FiniteSample)
             /\ sa.std.ss = SampleSS(FiniteSample)

\* |v - mean| <= k * std with the mean and deviation the page computed,
\* squared and cleared of divisions; False when either is not a number.
InBand(v, k) ==
    /\ sa.mean.k = "num" /\ sa.std.k = "num"
    /\ LET d == v * sa.mean.n - sa.mean.num
       IN  d * d * (sa.std.n - 1) <= k * k * sa.std.n * sa.std.ss

Counted(k) == {i \in 1..Len(sa.series) : sa.series[i].k = "num" /\ InBand(sa.series[i].v, k)}

Scenario2 == <<Fin(1), Fin(2), Fin(3), Fin(4), Fin(5)>>

\* C14: on both pages an entry is counted in the k-sigma band exactly when
\* mean - k*std <= v <= mean + k*std, edges included; the sample
\* [1,2,3,4,5] has mean 3, the values 2,3,4 within one sigma and all five
\* within two.
C14_InclusiveBands ==
    StatsDone =>
        /\ \A k \in 1..3 : sa.within[k] = Cardinality(Counted(k))
        /\ sa.column = Scenario2 =>
              /\ sa.mean.k = "num" /\ sa.mean.num = 3 * sa.mean.n
              /\ Counted(1) = {2, 3, 4}
              /\ sa.within[1] = 3
              /\ sa.within[2] = 5

\* The dimple page has counted the bands of the sample [1,2,3,4,5].
C14_Witness ==
    /\ StatsDone /\ sa.page = "dimple"
    /\ sa.column = Scenario2
    /\ sa.within = <<3, 5, 5>>

\* C15: on both pages the statistics are those of the finite entries of the
\* column: the sample holds no other entry, total is their number and the
\* mean is their mean (stated for columns with at least one finite entry).
C15_FiniteValuesOnly ==
    (StatsDone /\ FiniteSample # <<>>) =>
        /\ sa.series = finite_only(sa.column)
        /\ sa.total = Len(FiniteSample)
        /\ sa.mean.k = "num"
        /\ sa.mean.n = Len(FiniteSample)
        /\ sa.mean.num = Sum(FiniteSample)

\* The transmittance page has finished its Cpk block.
TrDone == sa.page = "transmittance" /\ sa.pc = "done" /\ sa.series # <<>>

\* The sample has a deviation above 0: two values or more, not all equal.
Spread == Len(FiniteSample) >= 2 /\ SampleSS(FiniteSample) > 0

\* C16: on the transmittance page cpk, cpk_upper and cpk_lower are numbers
\* exactly when the deviation is above 0 and USL > LSL; otherwise all three
\* are None and the status reports a zero deviation or an invalid range
\* (USL = LSL gives None and the invalid-range status).
C16_NumericIffComputable ==
    TrDone =>
        IF Spread /\ sa.usl > sa.lsl
        THEN /\ sa.cpk.k = "num"
             /\ sa.cpk_upper.k = "num"
             /\ sa.cpk_lower.k = "num"
        ELSE /\ sa.cpk.k = "none"
             /\ sa.cpk_upper.k = "none"
             /\ sa.cpk_lower.k = "none"
             /\ sa.status \in {"zero variance", "invalid spec range"}
             /\ ~Spread => sa.status = "zero variance"
             /\ Spread => sa.status = "invalid spec range"

\* USL = LSL for a sample that does vary: None, invalid range.
C16_Witness ==
    /\ TrDone /\ Spread
    /\ sa.usl = sa.lsl
    /\ sa.cpk.k = "none"
    /\ sa.status = "invalid spec range"

\* The dimple page has shown its Cpk and chosen a band.
DpDone == sa.page = "dimple" /\ sa.pc = "done"

Bands == {"excellent", "good", "acceptable", "needs improvement"}

\* The column holds two or more entries, all finite.
TwoOrMoreFinite == Len(sa.column) >= 2 /\ Len(FiniteSample) = Len(sa.column)

\* C17: on the dimple page, with a deviation of 0 or with USL <= LSL, the
\* Cpk is reported as uncomputable: cpk is no number (not the placeholder 0,
\* not an infinity) and no capability band is assigned (stated for columns
\* of two or more finite values).
C17_UncomputableNotNumeric ==
    (DpDone /\ TwoOrMoreFinite /\ (std_zero(sa.std) \/ sa.usl <= sa.lsl)) =>
        /\ sa.cpk.k \notin {"num", "inf", "-inf"}
        /\ sa.status \notin Bands

\* Either page has computed cpk_upper, cpk_lower and cpk from a deviation
\* above 0 and USL > LSL.
CpkComputed ==
    /\ sa.pc \in {"status", "done"}
    /\ sa.series # <<>>
    /\ std_positive(sa.std) /\ sa.usl > sa.lsl

\* C18: on both pages a computed Cpk has cpk_upper = (USL - mean)/(3*std),
\* cpk_lower = (mean - LSL)/(3*std) and cpk = min of the two: cpk is one of
\* them and exceeds neither.  (Both quotients are kept over the divisor
\* 300 * sqrt(n * ss / (n - 1)) = 3 * n * std in hundredths of u.)
C18_CpkFormulas ==
    CpkComputed =>
        LET n == sa.mean.n
            total == sa.mean.num
        IN  /\ sa.cpk_upper = Q("num", sa.usl * n - 100 * total, sa.std.ss, n)
            /\ sa.cpk_lower = Q("num", 100 * total - sa.lsl * n, sa.std.ss, n)
            /\ sa.cpk \in {sa.cpk_upper, sa.cpk_lower}
            /\ sa.cpk.num <= sa.cpk_upper.num
            /\ sa.cpk.num <= sa.cpk_lower.num

\* A mean nearer to LSL than to USL: cpk is cpk_lower, below cpk_upper.
C18_Witness ==
    /\ CpkComputed
    /\ sa.cpk = sa.cpk_lower
    /\ sa.cpk_lower.num > 0
    /\ sa.cpk_lower.num < sa.cpk_upper.num

\* cpk >= t / 100 for the computed (positive-deviation) cpk of the state.
CpkAtLeast(t) ==
    /\ sa.cpk.num > 0
    /\ sa.cpk.num * sa.cpk.num * (sa.cpk.n - 1) >= 9 * t * t * sa.cpk.n * sa.cpk.ss

\* cpk = t / 100 exactly.
CpkOnEdge(t) ==
    /\ sa.cpk.num > 0
    /\ sa.cpk.num * sa.cpk.num * (sa.cpk.n - 1) = 9 * t * t * sa.cpk.n * sa.cpk.ss

\* C19: on both pages a computed cpk is in exactly one band, lower edges
\* included: >= 1.67 excellent, [1.33, 1.67) good, [1.0, 1.33) acceptable,
\* below 1.0 needs improvement.
C19_BandEdgesInclusive ==
    (CpkComputed /\ sa.pc = "done") =>
        /\ sa.status \in Bands
        /\ sa.status = "excellent" <=> CpkAtLeast(167)
        /\ sa.status = "good" <=> (CpkAtLeast(133) /\ ~CpkAtLeast(167))
        /\ sa.status = "acceptable" <=> (CpkAtLeast(100) /\ ~CpkAtLeast(133))
        /\ sa.status = "needs improvement" <=> ~CpkAtLeast(100)

\* A cpk of exactly 1.67 is excellent.
C19_Witness ==
    /\ CpkComputed /\ sa.pc = "done"
    /\ CpkOnEdge(167)
    /\ sa.status = "excellent"

\* The transmittance page has analysed a sample of mean 0.5 and deviation 0.1
\* (5 and 1 units of u = 0.1) against USL = 1.0 and LSL = 0.0.
Scenario3 ==
    /\ TrDone
    /\ sa.usl = 1000 /\ sa.lsl = 0
    /\ sa.mean.k = "num" /\ sa.mean.num = 5 * sa.mean.n
    /\ sa.std.k = "num" /\ sa.std.n >= 2
    /\ sa.std.ss = sa.std.n * (sa.std.n - 1)

\* c = 5/3 for a quotient c of the analysis.
FiveThirds(c) ==
    /\ c.k = "num" /\ c.num > 0
    /\ c.num * c.num * (c.n - 1) = 250000 * c.n * c.ss

\* C20: for USL = 1.0, LSL = 0.0, mean = 0.5 and deviation 0.1 the result is
\* cpk_upper = cpk_lower = cpk = 5/3 and the status is the top band,
\* excellent.
C20_Scenario3Excellent ==
    Scenario3 =>
        /\ FiveThirds(sa.cpk_upper)
        /\ FiveThirds(sa.cpk_lower)
        /\ FiveThirds(sa.cpk)
        /\ sa.status = "excellent"

\* C20 as the code has it: the three values are 5/3, which is below the
\* edge 1.67 of the top band, so the status is the second band, good.
C20_Scenario3Good ==
    Scenario3 =>
        /\ FiveThirds(sa.cpk_upper)
        /\ FiveThirds(sa.cpk_lower)
        /\ FiveThirds(sa.cpk)
        /\ ~CpkAtLeast(167) /\ CpkAtLeast(133)
        /\ sa.status = "good"

C20_Witness ==
    /\ Scenario3
    /\ sa.column = <<Fin(4), Fin(5), Fin(6)>>
    /\ sa.status = "good"

\* ------------------------------------------------------------------------
\* pages/6_三平面視覺化.py : non_linear_scale_z, statement by statement, with
\* its thresholds and scale factor as arguments
\* ------------------------------------------------------------------------

\* Heights (tenths), thresholds and scale factors the calls are drawn from.
NlVals == -1..5
NlThresholds == {0, 2, 4}
NlFactors == {-1, 0, 1, 2}

\* numpy arrays live on a heap of arrays and are named by their index.
\* z.copy() allocates a new array; a plain assignment would share the old.
array_alias(heap, ref) == [heap |-> heap, ref |-> ref]
array_copy(heap, ref) == [heap |-> Append(heap, heap[ref]), ref |-> Len(heap) + 1]

\* target[mask] = values[mask] for the values computed from source.
assign_masked(target, mask, values) ==
    [i \in 1..Len(target) |-> IF i \in mask THEN values[i] ELSE target[i]]

\* Lines 36-40: the value written for an element above threshold2.
upper_detached(z, t1, t2, s) == t1 + (z - t2)
upper_segment(z, t1, t2, s) == t1 + s * (t2 - t1) + (z - t2)

NlInit ==
    /\ gd = Idle /\ vc = Idle /\ pg = Idle /\ sf = Idle /\ sa = Idle /\ cc = Idle /\ dr = Idle /\ dl = Idle /\ cp = Idle
    /\ \E z \in SeqsUpTo(NlVals, MaxZLen) \ {<<>>},
          t1 \in NlThresholds, t2 \in NlThresholds, s \in NlFactors :
          nl = [pc |-> "copy", heap |-> <<z>>, z |-> 1, arg |-> z,
                threshold1 |-> t1, threshold2 |-> t2, scale_factor |-> s,
                z_scaled |-> 0, mask1 |-> {}, mask2 |-> {}, mask3 |-> {},
                ret |-> 0]

\* Line 27.
NlCopy ==
    /\ nl.pc = "copy"
    /\ \E c \in {array_copy(nl.heap, nl.z)} :
          nl' = [nl EXCEPT !.heap = c.heap, !.z_scaled = c.ref, !.pc = "masks"]
    /\ UNCHANGED <<gd, vc, pg, sf, sa, cc, dr, dl, cp>>

\* Lines 28-30.
NlMasks ==
    /\ nl.pc = "masks"
    /\ LET z == nl.heap[nl.z]
       IN  nl' = [nl EXCEPT
                    !.mask1 = {i \in 1..Len(z) : z[i] >= 0 /\ z[i] <= nl.threshold1},
                    !.mask2 = {i \in 1..Len(z) :
                                  z[i] > nl.threshold1 /\ z[i] <= nl.threshold2},
                    !.mask3 = {i \in 1..Len(z) : z[i] > nl.threshold2},
                    !.pc = "assign1"]
    /\ UNCHANGED <<gd, vc, pg, sf, sa, cc, dr, dl, cp>>

\* Line 32.
NlAssign1 ==
    /\ nl.pc = "assign1"
    /\ nl' = [nl EXCEPT
                !.heap[nl.z_scaled] = assign_masked(@, nl.mask1, nl.heap[nl.z]),
                !.pc = "assign2"]
    /\ UNCHANGED <<gd, vc, pg, sf, sa, cc, dr, dl, cp>>

\* Line 33.
NlAssign2 ==
    /\ nl.pc = "assign2"
    /\ LET z == nl.heap[nl.z]
       IN  nl' = [nl EXCEPT
                    !.heap[nl.z_scaled] =
                        assign_masked(@, nl.mask2,
                            [i \in 1..Len(z) |->
                                nl.threshold1
                                + nl.scale_factor * (z[i] - nl.threshold1)]),
                    !.pc = "assign3"]
    /\ UNCHANGED <<gd, vc, pg, sf, sa, cc, dr, dl, cp>>

\* Lines 35-40.
NlAssign3 ==
    /\ nl.pc = "assign3"
    /\ LET z == nl.heap[nl.z]
       IN  nl' = [nl EXCEPT
                    !.heap[nl.z_scaled] =
                        IF nl.mask3 # {}
                        THEN assign_masked(@, nl.mask3,
                                [i \in 1..Len(z) |->
                                    upper_segment(z[i], nl.threshold1,
                                        nl.threshold2, nl.scale_factor)])
                        ELSE @,
                    !.pc = "return"]
    /\ UNCHANGED <<gd, vc, pg, sf, sa, cc, dr, dl, cp>>

\* Line 42.
NlReturn ==
    /\ nl.pc = "return"
    /\ nl' = [nl EXCEPT !.ret = nl.z_scaled, !.pc = "done"]
    /\ UNCHANGED <<gd, vc, pg, sf, sa, cc, dr, dl, cp>>

NlNext == NlCopy \/ NlMasks \/ NlAssign1 \/ NlAssign2 \/ NlAssign3 \/ NlReturn

SpecNl == NlInit /\ [][NlNext]_vars

\* The three-segment map of the claim.
Piecewise(z, t1, t2, s) ==
    IF z <= t1 THEN z
    ELSE IF z <= t2 THEN t1 + s * (z - t1)
    ELSE t1 + s * (t2 - t1) + (z - t2)

\* C22: for t1 < t2 non_linear_scale_z maps z <= t1 to z, t1 < z <= t2 to
\* t1 + s*(z - t1) and z > t2 to t1 + s*(t2 - t1) + (z - t2); it returns a
\* new array and leaves the array it was given unchanged.
C22_PiecewiseMap ==
    (nl.pc = "done" /\ nl.threshold1 < nl.threshold2) =>
        /\ nl.ret # nl.z
        /\ nl.heap[nl.z] = nl.arg
        /\ Len(nl.heap[nl.ret]) = Len(nl.arg)
        /\ \A i \in 1..Len(nl.arg) :
              nl.heap[nl.ret][i] =
                  Piecewise(nl.arg[i], nl.threshold1, nl.threshold2, nl.scale_factor)

\* A call that rewrites an element of the middle segment and one above it.
C22_Witness ==
    /\ nl.pc = "done" /\ nl.threshold1 < nl.threshold2
    /\ nl.mask2 # {} /\ nl.mask3 # {}
    /\ nl.heap[nl.ret] # nl.arg
    /\ nl.heap[nl.z] = nl.arg

\* ------------------------------------------------------------------------
\* pages/6_三平面視覺化.py : calc_cmin_cmax on the two samples of a pair of
\* compared surfaces
\* ------------------------------------------------------------------------

\* A finite float64 of this component is a pair <<a, b>> that stands for
\* a * 1e-9 + b * 2^-1074: a counts nano-units, b counts steps of the
\* smallest positive float.  The b of the model are small, so pairs are
\* ordered lexicographically.  Sums and differences of subnormal floats are
\* exact; a product is rounded to the nearest float.
F(a, b) == [k |-> "num", v |-> <<a, b>>]
FNaN == [k |-> "nan", v |-> <<0, 0>>]
FInf == [k |-> "inf", v |-> <<0, 0>>]

f_lt(x, y) == x[1] < y[1] \/ (x[1] = y[1] /\ x[2] < y[2])
f_le(x, y) == x = y \/ f_lt(x, y)
f_abs(x) == IF f_lt(x, <<0, 0>>) THEN <<-x[1], -x[2]>> ELSE x

\* x * 1e-6 for x >= 0.  Among the subnormal floats the product is rounded
\* to a whole number of steps, and below half a step to 0.0; the normal
\* values of the model are whole multiples of 1e-3, whose product is a whole
\* number of nano-units.
times_1e6(x) == <<x[1] \div 1000000, (x[2] + 500000) \div 1000000>>

\* The entries of a sample: 0.0, 0.001, -0.002, the smallest positive float,
\* a subnormal three million times larger, NaN and inf.
CcVals ==
    {F(0, 0), F(1000000, 0), F(-2000000, 0), F(0, 1), F(0, 3000000), FNaN, FInf}

f_min(S) == CHOOSE x \in S : \A y \in S : f_le(x, y)
f_max(S) == CHOOSE x \in S : \A y \in S : f_le(y, x)

IsFinite(e) == e.k = "num"

CcInit ==
    /\ gd = Idle /\ vc = Idle /\ pg = Idle /\ sf = Idle /\ sa = Idle /\ nl = Idle /\ dr = Idle /\ dl = Idle /\ cp = Idle
    /\ \E a \in SeqsUpTo(CcVals, MaxZLen), b \in SeqsUpTo(CcVals, MaxZLen) :
          cc = [pc |-> "concat", sample_a |-> a, sample_b |-> b,
                values |-> <<>>, finite |-> <<>>,
                cmin |-> <<0, 0>>, cmax |-> <<0, 0>>, calls |-> 0]

\* Lines 236 / 460: one call on the concatenation of both samples.
CcConcat ==
    /\ cc.pc = "concat"
    /\ cc' = [cc EXCEPT !.values = cc.sample_a \o cc.sample_b,
                        !.calls = @ + 1,
                        !.pc = "finite"]
    /\ UNCHANGED <<gd, vc, pg, sf, sa, nl, dr, dl, cp>>

\* Lines 117-119.
CcFinite ==
    /\ cc.pc = "finite"
    /\ \E finite \in {SelectSeq(cc.values, IsFinite)} :
          cc' = [cc EXCEPT !.finite = finite,
                           !.cmin = IF finite = <<>> THEN <<0, 0>> ELSE @,
                           !.cmax = IF finite = <<>> THEN <<1000000000, 0>> ELSE @,
                           !.pc = IF finite = <<>> THEN "done" ELSE "range"]
    /\ UNCHANGED <<gd, vc, pg, sf, sa, nl, dr, dl, cp>>

\* Lines 120-126.
CcRange ==
    /\ cc.pc = "range"
    /\ \E lo \in {f_min({cc.finite[i].v : i \in 1..Len(cc.finite)})},
          hi \in {f_max({cc.finite[i].v : i \in 1..Len(cc.finite)})} :
          IF lo = hi
          THEN \E eps \in {IF lo = <<0, 0>> THEN <<1, 0>> ELSE times_1e6(f_abs(lo))} :
                  cc' = [cc EXCEPT !.cmin = <<lo[1] - eps[1], lo[2] - eps[2]>>,
                                   !.cmax = <<hi[1] + eps[1], hi[2] + eps[2]>>,
                                   !.pc = "done"]
          ELSE cc' = [cc EXCEPT !.cmin = lo, !.cmax = hi, !.pc = "done"]
    /\ UNCHANGED <<gd, vc, pg, sf, sa, nl, dr, dl, cp>>

CcNext == CcConcat \/ CcFinite \/ CcRange

SpecCc == CcInit /\ [][CcNext]_vars

\* The finite values of the two samples.
FiniteOfBoth ==
    {cc.sample_a[i].v : i \in {j \in 1..Len(cc.sample_a) : cc.sample_a[j].k = "num"}}
    \cup
    {cc.sample_b[i].v : i \in {j \in 1..Len(cc.sample_b) : cc.sample_b[j].k = "num"}}

\* C23: the colour domain of a pair of surfaces is computed once, from the
\* union of both samples; it ignores non-finite values, contains every
\* finite value of either sample, and cmin < cmax strictly for every input.
C23_ColourDomain ==
    cc.pc = "done" =>
        /\ cc.calls = 1
        /\ \A v \in FiniteOfBoth : f_le(cc.cmin, v) /\ f_le(v, cc.cmax)
        /\ f_lt(cc.cmin, cc.cmax)

\* ------------------------------------------------------------------------
\* pages/3_Dimple_3D視覺化.py : the order of one dimple analysis run, from
\* the loaded table to the figure
\* ------------------------------------------------------------------------

\* A row of the loaded table: its Z value, and whether every cell of the
\* row passes validate_every_cell (a bad name or X/Y cell leaves Z numeric).
DrRows == [z : {1, 2}, valid : BOOLEAN]

\* The threshold of the threshold analysis (rows with Z <= it are kept).
DrThresholds == {1}

all_valid(table) == \A i \in 1..Len(table) : table[i].valid

KeepsLow(row) == \E t \in DrThresholds : row.z <= t

NoTable == <<"none">>

DrInit ==
    /\ gd = Idle /\ vc = Idle /\ pg = Idle /\ sf = Idle /\ sa = Idle /\ nl = Idle /\ cc = Idle /\ dl = Idle /\ cp = Idle
    /\ \E table \in SeqsUpTo(DrRows, MaxRows) \ {<<>>},
          usl_gt_lsl \in BOOLEAN, profile_ok \in BOOLEAN,
          filter_option \in {"all", "threshold"} :
          dr = [pc |-> "stats", table |-> table,
                usl_gt_lsl |-> usl_gt_lsl, profile_ok |-> profile_ok,
                filter_option |-> filter_option,
                cpk_upper_bound |-> FALSE,
                df_threshold |-> NoTable, df_filtered |-> NoTable,
                validated |-> NoTable,
                trace |-> <<>>, raised |-> "none"]

\* Lines 132-147: mean, std and the sigma-band counts of column 5 of df.
DrStats ==
    /\ dr.pc = "stats"
    /\ dr' = [dr EXCEPT !.trace = Append(@, "stats"), !.pc = "cpk"]
    /\ UNCHANGED <<gd, vc, pg, sf, sa, nl, cc, dl, cp>>

\* Lines 172-178: cpk_upper and cpk_lower are bound only when USL > LSL.
DrCpk ==
    /\ dr.pc = "cpk"
    /\ dr' = [dr EXCEPT !.cpk_upper_bound = dr.usl_gt_lsl,
                        !.trace = Append(@, "cpk"),
                        !.pc = "show"]
    /\ UNCHANGED <<gd, vc, pg, sf, sa, nl, cc, dl, cp>>

\* Lines 181-226: the metrics and the band are written, then cpk_upper is
\* read (NameError when unbound).
DrShow ==
    /\ dr.pc = "show"
    /\ dr' = [dr EXCEPT !.trace = Append(@, "shown"),
                        !.raised = IF dr.cpk_upper_bound THEN @ ELSE "NameError",
                        !.pc = IF dr.cpk_upper_bound THEN "threshold" ELSE "except"]
    /\ UNCHANGED <<gd, vc, pg, sf, sa, nl, cc, dl, cp>>

\* Lines 253-273.
DrThreshold ==
    /\ dr.pc = "threshold"
    /\ dr' = [dr EXCEPT !.df_threshold = SelectSeq(dr.table, KeepsLow),
                        !.pc = "profile"]
    /\ UNCHANGED <<gd, vc, pg, sf, sa, nl, cc, dl, cp>>

\* Lines 277-327: the step profile is read; a bad one ends the run with
\* st.error and st.stop.
DrProfile ==
    /\ dr.pc = "profile"
    /\ dr' = [dr EXCEPT !.trace = Append(@, "profile"),
                        !.pc = IF dr.profile_ok THEN "filter" ELSE "stopped"]
    /\ UNCHANGED <<gd, vc, pg, sf, sa, nl, cc, dl, cp>>

\* Lines 331-360.
DrFilter ==
    /\ dr.pc = "filter"
    /\ dr' = [dr EXCEPT !.df_filtered = IF dr.filter_option = "threshold"
                                        THEN dr.df_threshold ELSE dr.table,
                        !.pc = "visualize"]
    /\ UNCHANGED <<gd, vc, pg, sf, sa, nl, cc, dl, cp>>

\* Line 363 and show.py lines 127, 46, 190: _prepare_data validates the
\* table it is given, then the points are classified and drawn.
DrVisualize ==
    /\ dr.pc = "visualize"
    /\ IF all_valid(dr.df_filtered)
       THEN dr' = [dr EXCEPT !.validated = dr.df_filtered,
                             !.trace = @ \o <<"validate", "classify", "figure">>,
                             !.pc = "done"]
       ELSE dr' = [dr EXCEPT !.validated = dr.df_filtered,
                             !.trace = Append(@, "validate"),
                             !.raised = "ValueError",
                             !.pc = "except"]
    /\ UNCHANGED <<gd, vc, pg, sf, sa, nl, cc, dl, cp>>

\* Lines 368-372: st.error with the exception's text, then st.stop.
DrExcept ==
    /\ dr.pc = "except"
    /\ dr' = [dr EXCEPT !.trace = Append(@, "error"), !.pc = "aborted"]
    /\ UNCHANGED <<gd, vc, pg, sf, sa, nl, cc, dl, cp>>

DrNext ==
    \/ DrStats \/ DrCpk \/ DrShow \/ DrThreshold
    \/ DrProfile \/ DrFilter \/ DrVisualize \/ DrExcept

SpecDr == DrInit /\ [][DrNext]_vars

\* C24: in a dimple run no statistic and no ring classification is computed
\* before the whole uploaded table has passed validate_every_cell.
C24_ValidationFirst ==
    dr.pc # "idle" =>
        \A i \in 1..Len(dr.trace) :
            dr.trace[i] \in {"stats", "cpk", "classify"} =>
                /\ \E j \in 1..(i - 1) : dr.trace[j] = "validate"
                /\ dr.validated = dr.table
                /\ all_valid(dr.table)

\* The run has ended: completed, stopped on the profile, or aborted.
DrEnded == dr.pc \in {"done", "stopped", "aborted"}

\* The Cpk of the run is uncomputable: USL <= LSL, or a deviation of 0 (two
\* or more rows, all with the same Z).
DrUncomputable ==
    \/ ~dr.usl_gt_lsl
    \/ Len(dr.table) >= 2 /\ \A i \in 1..Len(dr.table) : dr.table[i].z = dr.table[1].z

\* C25: an uncomputable Cpk does not fail a dimple run: the statistics are
\* shown, the step profile is read, create_dimple_3d_visualization is called
\* and no exception aborts the run because of it (stated for runs whose
\* table is valid and whose step profile is accepted).
C25_UncomputableCompletes ==
    (DrEnded /\ DrUncomputable /\ all_valid(dr.table) /\ dr.profile_ok) =>
        /\ dr.pc = "done"
        /\ dr.raised = "none"
        /\ \A step \in {"stats", "shown", "profile", "figure"} :
              \E i \in 1..Len(dr.trace) : dr.trace[i] = step

\* create_dimple_3d_visualization has returned a figure.
SfFigure == sf.pc \in {"built", "flat"}

\* A non-empty profile with fewer than two distinct positive diameters.
StructurallyBad(profile) ==
    /\ profile # <<>>
    /\ Cardinality({d \in Dias(profile) : d > 0}) < 2

\* C26: create_dimple_3d_visualization never returns a figure for a
\* non-empty profile with fewer than two distinct positive diameters (it
\* reports an error instead of placing every point at step height 0 or
\* drawing a degenerate surface).  Stated for rings of positive diameter.
C26_BadProfileReported ==
    (/\ sf.pc # "idle"
     /\ StructurallyBad(sf.base_profile)
     /\ \A d \in Dias(sf.base_profile) : d > 0) => ~SfFigure

\* The grid cell c lies at the radius of the measured point pt: the point is
\* in half units, the cell at outer_radius * K/(n-1) on both axes.
SameRadius(pt, c) ==
    (pt[1] * pt[1] + pt[2] * pt[2]) * (sf.resolution - 1) * (sf.resolution - 1)
        = SetMax(Dias(sf.base_profile)) * SetMax(Dias(sf.base_profile))
            * CellR2(c, sf.resolution)

\* C27: for every accepted step profile drawn with z_scale = 1 and every
\* measured point within the outer ring, the height at which the point's
\* plane projection is drawn (get_original_step_height on the raw profile)
\* equals the height of the top-aligned stepped surface at every finite grid
\* cell of the same radius.
C27_PointsOnSurface ==
    (SfBuiltAccepted /\ sf.z_scale = 1) =>
        \A pt \in Points :
            within(pt, SetMax(Dias(sf.base_profile))) =>
                \A c \in FiniteCells :
                    SameRadius(pt, c) => sf.bowl_heights[pt] = sf.bowl.Z[c].v

NlOrdered ==
    nl.pc = "done" /\ nl.threshold1 <= nl.threshold2 /\ nl.scale_factor >= 0

MaxImages == 2
WorkIds == {1, 2}
Outcomes == {"ok", "raises", "no_connection"}
OnDelete == {"none", "restrict", "cascade"}

\* DatabaseManager.execute_query with fetch=False: the statement is executed
\* and committed and True is returned; when the connection cannot be
\* reopened, or the statement or the commit raises, the transaction is
\* rolled back and None is returned.  db is the committed content.
execute_query(db, effect, outcome) ==
    IF outcome = "ok"
    THEN [db |-> effect, result |-> TRUE]
    ELSE [db |-> db, result |-> FALSE]

\* DELETE FROM work_images WHERE work_progress_id = %s
images_deleted(db, id) ==
    [db EXCEPT !.work_images = [i \in DOMAIN @ |-> IF @[i] = id THEN 0 ELSE @[i]]]

ImagesOf(db, id) == {i \in DOMAIN db.work_images : db.work_images[i] = id}

\* DELETE FROM work_progress WHERE id = %s; rows of work_images that still
\* name the record go with it when the table cascades.
record_deleted(db, id, on_delete) ==
    [work_progress |-> db.work_progress \ {id},
     work_images |-> IF on_delete = "cascade"
                     THEN images_deleted(db, id).work_images
                     ELSE db.work_images]

\* The confirm button has been pressed for the selected record.  An image
\* row holds the id of its work record, 0 when the row does not exist.
DlInit ==
    /\ gd = Idle /\ vc = Idle /\ pg = Idle /\ sf = Idle /\ sa = Idle /\ cp = Idle
    /\ nl = Idle /\ cc = Idle /\ dr = Idle /\ cp = Idle
    /\ \E records \in SUBSET WorkIds \ {{}}, on_delete \in OnDelete :
         \E selected_id \in records,
            images \in [1..MaxImages -> records \cup {0}] :
             dl = [pc |-> "images",
                   db |-> [work_progress |-> records, work_images |-> images],
                   before |-> [work_progress |-> records, work_images |-> images],
                   on_delete |-> on_delete,
                   selected_id |-> selected_id,
                   result |-> FALSE,
                   messages |-> {}]

\* Line 1047: delete_images_from_database; its result is not looked at.
DlImages ==
    /\ dl.pc = "images"
    /\ \E outcome \in Outcomes :
         \E r \in {execute_query(dl.db, images_deleted(dl.db, dl.selected_id), outcome)} :
             dl' = [dl EXCEPT
                      !.db = r.db,
                      !.messages = IF r.result THEN @ ELSE @ \cup {"query_failed"},
                      !.pc = "record"]
    /\ UNCHANGED <<gd, vc, pg, sf, sa, nl, cc, dr, cp>>

\* Line 1050: the DELETE of the record.  A restricting foreign key makes
\* the statement raise while image rows of the record remain.
DlRecord ==
    /\ dl.pc = "record"
    /\ \E outcome \in Outcomes :
         /\ (dl.on_delete = "restrict" /\ ImagesOf(dl.db, dl.selected_id) # {})
                => outcome # "ok"
         /\ \E r \in {execute_query(dl.db,
                        record_deleted(dl.db, dl.selected_id, dl.on_delete), outcome)} :
                dl' = [dl EXCEPT
                         !.db = r.db,
                         !.result = r.result,
                         !.messages = IF r.result THEN @ ELSE @ \cup {"query_failed"},
                         !.pc = "message"]
    /\ UNCHANGED <<gd, vc, pg, sf, sa, nl, cc, dr, cp>>

\* Lines 1052-1054.
DlSuccess ==
    /\ dl.pc = "message" /\ dl.result
    /\ dl' = [dl EXCEPT !.messages = @ \cup {"success"}, !.pc = "done"]
    /\ UNCHANGED <<gd, vc, pg, sf, sa, nl, cc, dr, cp>>

\* Lines 1055-1056.
DlFailed ==
    /\ dl.pc = "message" /\ ~dl.result
    /\ dl' = [dl EXCEPT !.messages = @ \cup {"delete_failed"}, !.pc = "done"]
    /\ UNCHANGED <<gd, vc, pg, sf, sa, nl, cc, dr, cp>>

DlNext == DlImages \/ DlRecord \/ DlSuccess \/ DlFailed

SpecDl == DlInit /\ [][DlNext]_vars

AllGone ==
    /\ dl.selected_id \notin dl.db.work_progress
    /\ ImagesOf(dl.db, dl.selected_id) = {}

AllPresent ==
    /\ dl.selected_id \in dl.db.work_progress
    /\ ImagesOf(dl.db, dl.selected_id) = ImagesOf(dl.before, dl.selected_id)

\* C29: after a delete attempt, also one in which a query fails, either the
\* work_progress record and all of its work_images rows are gone or the
\* record and all of its images are still present, and the success message
\* is shown only when they are gone.
C29_DeleteAllOrNothing ==
    dl.pc = "done" =>
        /\ AllGone \/ AllPresent
        /\ "success" \in dl.messages => AllGone

\* ------------------------------------------------------------------------
\* pages/1_工作進度管理.py : copy_previous_week_data, the copy of last week's
\* records of one user into the displayed week
\* ------------------------------------------------------------------------

\* Dates are day numbers, day 0 a Monday.  NoDate is a NULL deadline.
MaxRecords == 2
NoDate == -1
Today == {14, 20}
RecordDates == {6, 7, 13, 14}
Deadlines == {NoDate, 9}
PhaseCodes == {"", "P2"}
Records == [date : RecordDates, deadline : Deadlines, phase_code : PhaseCodes]

\* date - timedelta(days=date.weekday())
get_week_start(date) == date - (date % 7)

\* Lines 1278-1280 and 1316-1317: the day of last week moved into the
\* displayed week.
same_day(date, previous_week_start, current_week_start) == date
moved(date, previous_week_start, current_week_start) ==
    current_week_start + (date - previous_week_start)

\* Line 1322.
phase_or_default(phase_code) == IF phase_code = "" THEN "P1" ELSE phase_code

\* Lines 1275-1327: the record inserted for one row of last week.
insert_data(row, previous_week_start, current_week_start) ==
    LET new_date == moved(row.date, previous_week_start, current_week_start)
    IN  [date |-> new_date,
         deadline |-> IF row.deadline # NoDate
                      THEN moved(row.deadline, previous_week_start, current_week_start)
                      ELSE new_date,
         phase_code |-> phase_or_default(row.phase_code)]

\* WHERE date >= %s AND date <= %s: the positions of the rows selected.
\* ORDER BY date decides only the order in which they are gone through.
RECURSIVE by_date(_, _, _)
by_date(table, first, last) ==
    IF first > last THEN <<>>
    ELSE SelectSeq([i \in 1..Len(table) |-> i], LAMBDA i : table[i].date = first)
             \o by_date(table, first + 1, last)

\* The copy button has been pressed; the table holds the records of the
\* user whose week is displayed.
CpInit ==
    /\ gd = Idle /\ vc = Idle /\ pg = Idle /\ sf = Idle /\ sa = Idle
    /\ nl = Idle /\ cc = Idle /\ dr = Idle /\ dl = Idle
    /\ \E table \in SeqsUpTo(Records, MaxRecords), today \in Today,
          role \in {"admin", "user"} :
          cp = [pc |-> "query",
                work_progress |-> table,
                before |-> table,
                role |-> role,
                current_week_start |-> get_week_start(today),
                previous_week_start |-> 0,
                previous_data |-> <<>>,
                i |-> 0,
                copied |-> <<>>,
                failed |-> {},
                success_count |-> 0,
                messages |-> {}]

\* Lines 1221-1251: the SELECT of last week's rows.  A failing query gives
\* None, which is treated like an empty week.
CpQuery ==
    /\ cp.pc = "query"
    /\ \E outcome \in Outcomes :
         \E start \in {cp.current_week_start - 7} :
             cp' = [cp EXCEPT
                      !.previous_week_start = start,
                      !.previous_data =
                          IF outcome = "ok"
                          THEN by_date(cp.work_progress, start, start + 6)
                          ELSE <<>>,
                      !.i = 1,
                      !.pc = "rows"]
    /\ UNCHANGED <<gd, vc, pg, sf, sa, nl, cc, dr, dl>>

\* Lines 1258-1336: one turn of the loop.  For an administrator the user id
\* is looked up first and a failed lookup skips the row; a failed INSERT is
\* reported and the loop goes on.
CpRow ==
    /\ cp.pc = "rows" /\ cp.i <= Len(cp.previous_data)
    /\ \E lookup \in IF cp.role = "admin" THEN Outcomes ELSE {"ok"},
          outcome \in Outcomes :
         \E id \in {cp.previous_data[cp.i]} :
           \E new \in {insert_data(cp.work_progress[id], cp.previous_week_start,
                                   cp.current_week_start)} :
             IF lookup = "ok" /\ outcome = "ok"
             THEN cp' = [cp EXCEPT
                           !.work_progress = Append(@, new),
                           !.copied = Append(@, [source |-> id, copy |-> Len(cp.work_progress) + 1]),
                           !.success_count = @ + 1,
                           !.i = @ + 1]
             ELSE cp' = [cp EXCEPT
                           !.failed = @ \cup {id},
                           !.messages = @ \cup {"row_failed"},
                           !.i = @ + 1]
    /\ UNCHANGED <<gd, vc, pg, sf, sa, nl, cc, dr, dl>>

\* Lines 1338-1344.
CpFinish ==
    /\ cp.pc = "rows" /\ cp.i > Len(cp.previous_data)
    /\ cp' = [cp EXCEPT
                !.messages = @ \cup {IF cp.previous_data = <<>> THEN "nothing_to_copy"
                                     ELSE IF cp.success_count > 0 THEN "success"
                                     ELSE "nothing_inserted"},
                !.pc = "done"]
    /\ UNCHANGED <<gd, vc, pg, sf, sa, nl, cc, dr, dl>>

CpNext == CpQuery \/ CpRow \/ CpFinish

SpecCp == CpInit /\ [][CpNext]_vars

LastWeek(row) ==
    /\ row.date >= cp.current_week_start - 7
    /\ row.date <= cp.current_week_start - 1

====
